---- MODULE Spec2Model ----
(***************************************************************************)
(* Model of qiskit_nature ActiveSpaceTransformer                           *)
(* (transformers/second_quantization/electronic/active_space_transformer). *)
(*                                                                         *)
(* Orbital indices are the 0-based Python indices; a Python list is a TLA+ *)
(* sequence, so element o of an occupation array is occ[o + 1].            *)
(* Coefficient matrices are taken in an orthonormal basis (identity        *)
(* matrix), so a basis transform is represented by the list of the column  *)
(* indices it keeps and a density matrix by its diagonal.                  *)
(***************************************************************************)
EXTENDS Integers, Sequences, FiniteSets, TLC

VARIABLES
    pc,                      \* "new" | "rejected" | "constructed" | "returned" | "raised"
    num_electrons,           \* self._num_electrons
    num_molecular_orbitals,  \* self._num_molecular_orbitals
    active_orbitals,         \* self._active_orbitals
    mo_occ_total,            \* self._mo_occ_total
    active_orbs_indices,     \* self._active_orbs_indices
    transform_active,        \* self._transform_active
    density_inactive,        \* self._density_inactive
    inactive_orbs_idxs,      \* local inactive_orbs_idxs of the last transform call
    grouped_property,        \* argument of the last transform call
    exc,                     \* exception escaping the last call ("none" when it returned)
    result                   \* value returned by the last transform call

vars == <<pc, num_electrons, num_molecular_orbitals, active_orbitals, mo_occ_total,
          active_orbs_indices, transform_active, density_inactive, inactive_orbs_idxs,
          grouped_property, exc, result>>

-----------------------------------------------------------------------------
(* Bounds of the model *)

\* largest number of spatial orbitals of the enumerated systems
NSpatial == 2

\* largest number of children of a nested group in the enumerated trees
MaxChildren == 2

-----------------------------------------------------------------------------
(* Python values *)
(* A list built as a function [i \in 1..n |-> e] is followed by \o <<>>, which  *)
(* leaves its value unchanged and makes TLC hold it as a sequence.            *)

\* a Python value: an int, a tuple/list of values, None, or a value of another type
PyInt(k) == [tag |-> "int", val |-> k, elems |-> <<>>]
PyTuple(s) == [tag |-> "tuple", val |-> 0, elems |-> s]
PyList(s) == [tag |-> "list", val |-> 0, elems |-> s]
PyNone == [tag |-> "none", val |-> 0, elems |-> <<>>]
PyOther == [tag |-> "other", val |-> 0, elems |-> <<>>]

RECURSIVE SumSeq(_)
SumSeq(s) == IF s = <<>> THEN 0 ELSE Head(s) + SumSeq(Tail(s))

RECURSIVE MaxSeq(_)
MaxSeq(s) == IF Len(s) = 1 THEN s[1]
             ELSE LET m == MaxSeq(Tail(s)) IN IF Head(s) > m THEN Head(s) ELSE m

Range(s) == {s[i] : i \in 1..Len(s)}

\* list(range(a, b))
PyRange(a, b) == [i \in 1..(IF b > a THEN b - a ELSE 0) |-> a + i - 1] \o <<>>

\* numpy element access arr[o]: a negative index counts from the end
NpInBounds(arr, o) == o >= -Len(arr) /\ o < Len(arr)
NpAt(arr, o) == IF o < 0 THEN arr[Len(arr) + o + 1] ELSE arr[o + 1]

\* numpy fancy indexing arr[idxs] with a list of indices
NpTake(arr, idxs) == [i \in 1..Len(idxs) |-> NpAt(arr, idxs[i])] \o <<>>

VecAdd(a, b) == [i \in 1..Len(a) |-> a[i] + b[i]] \o <<>>

-----------------------------------------------------------------------------
(* Property tree nodes *)

\* a Property: every node carries the same fields, a kind uses the ones it has
Node(kind, name) ==
    [kind |-> kind, name |-> name, children |-> <<>>, nso |-> 0,
     num_alpha |-> 0, num_beta |-> 0, occ_a |-> <<>>, occ_b |-> <<>>,
     cols |-> <<>>, h1 |-> <<>>, g2 |-> 0, shift2 |-> 0, molecule |-> "None"]

NoneNode == Node("None", "None")

\* ParticleNumber(num_spin_orbitals, (num_alpha, num_beta), occupation_alpha, occupation_beta)
ParticleNumber(nso, na, nb, occ_a, occ_b) ==
    [Node("ParticleNumber", "ParticleNumber") EXCEPT
        !.nso = nso, !.num_alpha = na, !.num_beta = nb, !.occ_a = occ_a, !.occ_b = occ_b]

\* ElectronicBasisTransform(AO, MO, coeff_alpha, coeff_beta), columns named by index
ElectronicBasisTransform(cols) ==
    [Node("ElectronicBasisTransform", "ElectronicBasisTransform") EXCEPT !.cols = cols]

\* OneBodyElectronicIntegrals(AO, (alpha, beta)) holding diagonal matrices
OneBodyElectronicIntegrals(da, db) ==
    [Node("OneBodyElectronicIntegrals", "OneBodyElectronicIntegrals") EXCEPT
        !.occ_a = da, !.occ_b = db]

\* an IntegralProperty over n orbitals: diagonal one-body integrals h1, a uniform
\* two-body coupling g2, and the energy shift recorded on it (twice its value)
IntegralProperty(name, h1, g2) ==
    [Node("IntegralProperty", name) EXCEPT !.h1 = h1, !.g2 = g2]

\* a SecondQuantizedProperty defined by its register length alone
SecondQuantizedProperty(name, nso) ==
    [Node("SecondQuantizedProperty", name) EXCEPT !.nso = nso]

\* a GroupedProperty subclass instance holding the given children
Group(kind, name, children) == [Node(kind, name) EXCEPT !.children = children]

GroupKinds == {"ElectronicStructureDriverResult", "GroupedProperty"}

\* grouped_property.get_property(cls): the child stored under the class name
GetProperty(group, cls) ==
    IF \E i \in 1..Len(group.children) : group.children[i].name = cls
    THEN group.children[CHOOSE i \in 1..Len(group.children) : group.children[i].name = cls]
    ELSE NoneNode

-----------------------------------------------------------------------------
(* Construction *)

\* _check_configuration: the exception it raises, "none" when it returns
CheckNumElectrons(ne) ==
    IF ne.tag = "int"
    THEN IF ne.val % 2 # 0 THEN "QiskitNatureError"
         ELSE IF ne.val < 0 THEN "QiskitNatureError"
         ELSE "none"
    ELSE IF ne.tag = "tuple"
    THEN IF ~ (\A i \in 1..Len(ne.elems) : ne.elems[i].tag = "int" /\ ne.elems[i].val >= 0)
         THEN "QiskitNatureError"
         ELSE "none"
    ELSE "QiskitNatureError"

CheckNumMolecularOrbitals(nmo) ==
    IF nmo.tag = "int"
    THEN IF nmo.val < 0 THEN "QiskitNatureError" ELSE "none"
    ELSE "QiskitNatureError"

CheckConfiguration(ne, nmo) ==
    IF CheckNumElectrons(ne) # "none" THEN CheckNumElectrons(ne)
    ELSE CheckNumMolecularOrbitals(nmo)

-----------------------------------------------------------------------------
(* The active-space selector *)

\* num_alpha, num_beta = self._num_electrons  raises ValueError unless there are 2 elements
UnpackFails(ne) == ne.tag = "tuple" /\ Len(ne.elems) # 2

NumAlpha(ne) == IF ne.tag = "tuple" THEN ne.elems[1].val ELSE ne.val \div 2
NumBeta(ne) == IF ne.tag = "tuple" THEN ne.elems[2].val ELSE ne.val \div 2

NelecTotal(pn) == pn.num_alpha + pn.num_beta

NelecInactive(ne, pn) == NelecTotal(pn) - NumAlpha(ne) - NumBeta(ne)

\* _validate_num_electrons
ValidateNumElectrons(nelec_inactive) ==
    IF nelec_inactive < 0 THEN "QiskitNatureError"
    ELSE IF nelec_inactive % 2 # 0 THEN "QiskitNatureError"
    ELSE "none"

\* expected_num_electrons of _validate_num_orbitals
ExpectedNumElectrons(ne) ==
    IF ne.tag = "int" THEN ne.val
    ELSE SumSeq([i \in 1..Len(ne.elems) |-> ne.elems[i].val])

\* mutant: the index is compared with the number of spin orbitals
OrbitalBound_SpinOrbitals(pn) == pn.nso

\* the bound an explicit index must stay below: particle_number._num_spin_orbitals // 2
OrbitalBound(pn) == pn.nso \div 2

\* _validate_num_orbitals, default branch
ValidateDefault(nelec_inactive, pn, nmo) ==
    IF (nelec_inactive \div 2) + nmo.val > pn.nso \div 2 THEN "QiskitNatureError"
    ELSE "none"

\* _validate_num_orbitals, branch for explicit active_orbitals
ValidateExplicit(pn, ne, nmo, ao, occ_total) ==
    IF nmo.val # Len(ao.elems) THEN "QiskitNatureError"
    ELSE IF ao.elems = <<>> THEN "ValueError"   \* max() of an empty list
    ELSE IF MaxSeq(ao.elems) >= OrbitalBound(pn) THEN "QiskitNatureError"
    ELSE IF \E i \in 1..Len(ao.elems) : ~ NpInBounds(occ_total, ao.elems[i])
         THEN "IndexError"                      \* numpy index below -len
    ELSE IF SumSeq(NpTake(occ_total, ao.elems)) # ExpectedNumElectrons(ne)
         THEN "QiskitNatureError"
    ELSE "none"

ValidateNumOrbitals(nelec_inactive, pn, ne, nmo, ao, occ_total) ==
    IF ao.tag = "none" THEN ValidateDefault(nelec_inactive, pn, nmo)
    ELSE ValidateExplicit(pn, ne, nmo, ao, occ_total)

\* mutant: the active block starts at orbital 0 instead of above the inactive ones
ActiveOrbsIdxs_FromZero(nelec_inactive, nmo, ao) ==
    IF ao.tag = "none"
    THEN PyRange(0, nmo.val)
    ELSE ao.elems

\* active_orbs_idxs of _determine_active_space
ActiveOrbsIdxs(nelec_inactive, nmo, ao) ==
    IF ao.tag = "none"
    THEN PyRange(nelec_inactive \div 2, (nelec_inactive \div 2) + nmo.val)
    ELSE ao.elems

\* [x for x in s if P(x)]
RECURSIVE FilterInactive(_, _, _)
FilterInactive(s, ao, occ_total) ==
    IF s = <<>> THEN <<>>
    ELSE IF Head(s) \notin Range(ao.elems) /\ NpAt(occ_total, Head(s)) > 0
         THEN <<Head(s)>> \o FilterInactive(Tail(s), ao, occ_total)
         ELSE FilterInactive(Tail(s), ao, occ_total)

\* mutant: the comprehension forgets "o not in self._active_orbitals"
RECURSIVE FilterOccupied(_, _)
FilterOccupied(s, occ_total) ==
    IF s = <<>> THEN <<>>
    ELSE IF NpAt(occ_total, Head(s)) > 0
         THEN <<Head(s)>> \o FilterOccupied(Tail(s), occ_total)
         ELSE FilterOccupied(Tail(s), occ_total)

InactiveOrbsIdxs_KeepActive(nelec_inactive, nelec_total, ao, occ_total) ==
    IF ao.tag = "none"
    THEN PyRange(0, nelec_inactive \div 2)
    ELSE FilterOccupied(PyRange(0, nelec_total \div 2), occ_total)

\* inactive_orbs_idxs of _determine_active_space
InactiveOrbsIdxs(nelec_inactive, nelec_total, ao, occ_total) ==
    IF ao.tag = "none"
    THEN PyRange(0, nelec_inactive \div 2)
    ELSE FilterInactive(PyRange(0, nelec_total \div 2), ao, occ_total)

\* _determine_active_space: [exc, active, inactive]
DetermineActiveSpace(pn, ne, nmo, ao, occ_total) ==
    LET raised(e) == [exc |-> e, active |-> <<>>, inactive |-> <<>>]
        ni == NelecInactive(ne, pn)
    IN  IF UnpackFails(ne) THEN raised("ValueError")
        ELSE IF ValidateNumElectrons(ni) # "none" THEN raised(ValidateNumElectrons(ni))
        ELSE IF ValidateNumOrbitals(ni, pn, ne, nmo, ao, occ_total) # "none"
             THEN raised(ValidateNumOrbitals(ni, pn, ne, nmo, ao, occ_total))
        ELSE [exc |-> "none",
              active |-> ActiveOrbsIdxs(ni, nmo, ao),
              inactive |-> InactiveOrbsIdxs(ni, NelecTotal(pn), ao, occ_total)]

-----------------------------------------------------------------------------
(* The reducer *)

\* an attribute that is None or holds a value
Some(v) == [some |-> TRUE, v |-> v]
Nothing == [some |-> FALSE, v |-> <<>>]

\* _inactive_density(mo_occ, mo_coeff): the diagonal of C_I diag(occ_I) C_I^T
InactiveDensity(mo_occ, inactive) ==
    [p \in 1..Len(mo_occ) |-> IF (p - 1) \in Range(inactive) THEN mo_occ[p] ELSE 0] \o <<>>

\* prop.integral_operator(density): the effective one-body operator (diagonal)
IntegralOperator(prop, density) ==
    [p \in 1..Len(prop.h1) |-> prop.g2 * SumSeq(VecAdd(density[1], density[2]))] \o <<>>

\* total_op.compose(density): the contraction of an operator with the density
Compose(total_op, density) ==
    SumSeq([p \in 1..Len(total_op) |-> total_op[p] * (density[1][p] + density[2][p])])

\* the IntegralProperty branch of _transform_property
TransformIntegralProperty(prop, active, density) ==
    LET fock_operator == IntegralOperator(prop, density)
        total_op == VecAdd(prop.h1, fock_operator)
        e_inactive2 == Compose(total_op, density)
    IN  [prop EXCEPT !.h1 = NpTake(total_op, active), !.shift2 = e_inactive2]

\* mutant: the register length is the number of active orbitals, not twice it
TransformParticleNumber_HalfRegister(p_n, active) ==
    LET active_occ_alpha == NpTake(p_n.occ_a, active)
        active_occ_beta == NpTake(p_n.occ_b, active)
    IN  ParticleNumber(Len(active), SumSeq(active_occ_alpha), SumSeq(active_occ_beta),
                       active_occ_alpha, active_occ_beta)

\* the ParticleNumber branch of _transform_property
TransformParticleNumber(p_n, active) ==
    LET active_occ_alpha == NpTake(p_n.occ_a, active)
        active_occ_beta == NpTake(p_n.occ_b, active)
    IN  ParticleNumber(Len(active) * 2, SumSeq(active_occ_alpha), SumSeq(active_occ_beta),
                       active_occ_alpha, active_occ_beta)

LeafKinds == {"IntegralProperty", "ParticleNumber", "SecondQuantizedProperty",
              "ElectronicBasisTransform", "DriverMetadata"}

\* the leaf branches of _transform_property
TransformLeaf(prop, active, density) ==
    IF prop.kind = "IntegralProperty" THEN TransformIntegralProperty(prop, active, density)
    ELSE IF prop.kind = "ParticleNumber" THEN TransformParticleNumber(prop, active)
    ELSE IF prop.kind = "SecondQuantizedProperty"
         THEN SecondQuantizedProperty(prop.name, Len(active) * 2)
    ELSE prop

\* mutant: an empty group is kept
RemoveEmpty_Keep(group) == group

\* the group left after the loop: None when it holds no property
RemoveEmpty(group) == IF Len(group.children) = 0 THEN NoneNode ELSE group

\* one pass of the loop over a group's children: the child is added unless its
\* rewrite raised TypeError (caught, with a warning) or gave None
AddTransformed(acc, t) ==
    IF t.exc = "TypeError" \/ t.val.kind = "None" THEN acc ELSE Append(acc, t.val)

\* _transform_property: [exc, val]; exc is "TypeError" for an unsupported Property
RECURSIVE TransformProperty(_, _, _)
RECURSIVE TransformChildren(_, _, _, _)
TransformChildren(acc, children, active, density) ==
    IF children = <<>> THEN acc
    ELSE TransformChildren(
             AddTransformed(acc, TransformProperty(Head(children), active, density)),
             Tail(children), active, density)

TransformProperty(prop, active, density) ==
    IF prop.kind \in GroupKinds
    THEN LET fresh == [Node(prop.kind, prop.name) EXCEPT
                          !.molecule = IF prop.kind = "ElectronicStructureDriverResult"
                                       THEN prop.molecule ELSE "None"]
         IN  [exc |-> "none",
              val |-> RemoveEmpty([fresh EXCEPT !.children =
                          TransformChildren(<<>>, prop.children, active, density)])]
    ELSE IF prop.kind \in LeafKinds
    THEN [exc |-> "none", val |-> TransformLeaf(prop, active, density)]
    ELSE [exc |-> "TypeError", val |-> NoneNode]

\* transform(grouped_property), as the values it leaves behind:
\* [exc, occ (self._mo_occ_total), sel (selector result), out (returned tree)]
TransformCall(gp, ne, nmo, ao) ==
    LET particle_number == GetProperty(gp, "ParticleNumber")
        electronic_basis_transform == GetProperty(gp, "ElectronicBasisTransform")
        occ == VecAdd(particle_number.occ_a, particle_number.occ_b)
        sel == DetermineActiveSpace(particle_number, ne, nmo, ao, occ)
        density == <<InactiveDensity(particle_number.occ_a, sel.inactive),
                     InactiveDensity(particle_number.occ_b, sel.inactive)>>
        early(e) == [exc |-> e, occ |-> Nothing, sel |-> Nothing, density |-> Nothing,
                     out |-> NoneNode]
    IN  IF gp.kind # "ElectronicStructureDriverResult" THEN early("QiskitNatureError")
        ELSE IF particle_number.kind = "None" THEN early("QiskitNatureError")
        ELSE IF electronic_basis_transform.kind = "None" THEN early("QiskitNatureError")
        ELSE IF sel.exc # "none"
             THEN [early(sel.exc) EXCEPT !.occ = Some(occ)]
        ELSE [exc |-> "none", occ |-> Some(occ), sel |-> Some(sel),
              density |-> Some(density),
              out |-> TransformProperty(gp, sel.active, density).val]

\* the transformer instance: its configuration and the fields a call caches
Self ==
    [num_electrons |-> num_electrons,
     num_molecular_orbitals |-> num_molecular_orbitals,
     active_orbitals |-> active_orbitals,
     mo_occ_total |-> mo_occ_total,
     active_orbs_indices |-> active_orbs_indices,
     transform_active |-> transform_active,
     density_inactive |-> density_inactive]

\* the instance __init__ leaves behind: the four cached fields are None
NewInstance(ne, nmo, ao) ==
    [num_electrons |-> ne, num_molecular_orbitals |-> nmo, active_orbitals |-> ao,
     mo_occ_total |-> Nothing, active_orbs_indices |-> Nothing,
     transform_active |-> Nothing, density_inactive |-> Nothing]

\* mutant: the total occupation is computed once and then taken from the instance
MoOccTotal_Memoised(self, particle_number) ==
    IF self.mo_occ_total.some THEN self.mo_occ_total.v
    ELSE VecAdd(particle_number.occ_a, particle_number.occ_b)

\* self._mo_occ_total = occupation_alpha + occupation_beta
MoOccTotal(self, particle_number) ==
    VecAdd(particle_number.occ_a, particle_number.occ_b)

\* transform(grouped_property) on an instance, statement by statement: every read
\* of a cached field is a read of the instance as the statements before it left it.
\* [exc, self (the instance after the call), inactive (the local list), out]
TransformOn(self, gp) ==
    LET particle_number == GetProperty(gp, "ParticleNumber")
        electronic_basis_transform == GetProperty(gp, "ElectronicBasisTransform")
        s1 == [self EXCEPT !.mo_occ_total = Some(MoOccTotal(self, particle_number))]
        sel == DetermineActiveSpace(particle_number, s1.num_electrons,
                                    s1.num_molecular_orbitals, s1.active_orbitals,
                                    s1.mo_occ_total.v)
        s2 == [s1 EXCEPT !.active_orbs_indices = Some(sel.active)]
        s3 == [s2 EXCEPT !.transform_active =
                             Some(ElectronicBasisTransform(s2.active_orbs_indices.v))]
        s4 == [s3 EXCEPT !.density_inactive =
                             Some(OneBodyElectronicIntegrals(
                                      InactiveDensity(particle_number.occ_a, sel.inactive),
                                      InactiveDensity(particle_number.occ_b, sel.inactive)))]
        out == TransformProperty(gp, s4.active_orbs_indices.v,
                                 <<s4.density_inactive.v.occ_a,
                                   s4.density_inactive.v.occ_b>>).val
        raised(e, s) == [exc |-> e, self |-> s, inactive |-> Nothing, out |-> NoneNode]
    IN  IF gp.kind # "ElectronicStructureDriverResult" THEN raised("QiskitNatureError", self)
        ELSE IF particle_number.kind = "None" THEN raised("QiskitNatureError", self)
        ELSE IF electronic_basis_transform.kind = "None"
             THEN raised("QiskitNatureError", self)
        ELSE IF sel.exc # "none" THEN raised(sel.exc, s1)
        ELSE [exc |-> "none", self |-> s4, inactive |-> Some(sel.inactive), out |-> out]

-----------------------------------------------------------------------------
(* Inputs *)

\* arguments a caller may pass as num_electrons
IntVals == (-2..(2 * NSpatial + 1)) \cup {11}
TupleElems == {PyInt(k) : k \in -1..NSpatial} \cup {PyOther}
TupleChoices ==
    [1..2 -> TupleElems] \cup {<<>>, <<PyInt(1)>>, <<PyInt(0), PyInt(1), PyInt(1)>>}
NumElectronsChoices ==
    {PyInt(k) : k \in IntVals} \cup {PyTuple(t) : t \in TupleChoices} \cup {PyNone, PyOther}

\* arguments a caller may pass as num_molecular_orbitals
NumOrbitalsChoices == {PyInt(k) : k \in -1..(NSpatial + 1)} \cup {PyNone}

\* arguments a caller may pass as active_orbitals
\* (every list of at most 2 indices, every list naming each orbital once, the list
\* [3, 4] of the 10-orbital scenario and an index below -len)
IdxVals == -1..NSpatial
AllOrbitalLists(n) == {l \in [1..n -> 0..(n - 1)] : \A i, j \in 1..n : i # j => l[i] # l[j]}
ListChoices ==
    UNION {[1..k -> IdxVals] : k \in 0..2} \cup AllOrbitalLists(NSpatial)
    \cup {<<3, 4>>, <<-(NSpatial + 1)>>}
ActiveOrbitalsChoices == {PyNone} \cup {PyList(l) : l \in ListChoices}

\* the ParticleNumber of a system with the given per-spin occupations
SystemOf(occ_a, occ_b) ==
    ParticleNumber(2 * Len(occ_a), SumSeq(occ_a), SumSeq(occ_b), occ_a, occ_b)

\* the 10-orbital system with 5 alpha and 5 beta electrons in the lowest orbitals
ScenarioOcc == <<1, 1, 1, 1, 1, 0, 0, 0, 0, 0>>
ScenarioSystem == SystemOf(ScenarioOcc, ScenarioOcc)

Systems ==
    {SystemOf(a, b) : a \in [1..NSpatial -> {0, 1}], b \in [1..NSpatial -> {0, 1}]}
    \cup {ScenarioSystem}

\* the driver result of a system: occupation, basis transform and the electronic energy
DriverResult(pn, extra) ==
    [Group("ElectronicStructureDriverResult", "ElectronicStructureDriverResult",
           <<pn,
             ElectronicBasisTransform(PyRange(0, pn.nso \div 2)),
             IntegralProperty("ElectronicEnergy", PyRange(1, (pn.nso \div 2) + 1), 1)>>
           \o extra)
     EXCEPT !.molecule = "molecule"]

\* leaves a driver result may hold besides the three above; OccupiedModals is a
\* vibrational property, a kind _transform_property does not know
ExtraLeaves ==
    {SecondQuantizedProperty("AngularMomentum", 4),
     Node("DriverMetadata", "DriverMetadata"),
     Node("OccupiedModals", "OccupiedModals"),
     Node("VibrationalEnergy", "VibrationalEnergy")}

UniqueNames(children) ==
    \A i, j \in 1..Len(children) : i # j => children[i].name # children[j].name

\* nested groups: a group of leaves, and a group holding one such group
InnerGroups ==
    {Group("GroupedProperty", "ElectronicDipoleMoment", c) :
        c \in {l \in UNION {[1..k -> ExtraLeaves] : k \in 0..MaxChildren} : UniqueNames(l)}}
OuterGroups == {Group("GroupedProperty", "Outer", <<g>>) : g \in InnerGroups}
ExtraChildren == ExtraLeaves \cup InnerGroups \cup OuterGroups

\* the children a driver result holds after its first three, at most 2 of them
ExtraChoices == {l \in UNION {[1..k -> ExtraChildren] : k \in 0..2} : UniqueNames(l)}

\* trees transform refuses before it selects anything
Malformed(pn) ==
    {[DriverResult(pn, <<>>) EXCEPT !.kind = "VibrationalStructureDriverResult"],
     [DriverResult(pn, <<>>) EXCEPT !.children = Tail(@)],
     [DriverResult(pn, <<>>) EXCEPT !.children = <<@[1], @[3]>>]}

\* the system and the configurations the trees are rewritten under: default and
\* explicit mode keeping orbital 1 of a 3-electron system, and an infeasible request
TreeSystems == {SystemOf(<<1, 1>>, <<1, 0>>)}
TreeConfigs ==
    {<<PyTuple(<<PyInt(1), PyInt(0)>>), PyInt(1), PyNone>>,
     <<PyTuple(<<PyInt(1), PyInt(0)>>), PyInt(1), PyList(<<1>>)>>,
     <<PyInt(4), PyInt(2), PyNone>>}

\* the trees and configurations of repeated calls on one instance: the systems
\* of NSpatial orbitals whose beta electrons sit in orbitals holding an alpha
\* electron, the refused trees, and default and explicit requests that some of
\* the systems satisfy and others do not
HistorySystems ==
    {pn \in Systems : /\ pn.nso = 2 * NSpatial
                      /\ \A o \in 1..NSpatial : pn.occ_b[o] <= pn.occ_a[o]}
HistoryTrees ==
    {DriverResult(pn, <<>>) : pn \in HistorySystems}
    \cup UNION {Malformed(pn) : pn \in TreeSystems}
HistoryConfigs ==
    {<<PyInt(2), PyInt(1), PyNone>>,
     <<PyInt(2), PyInt(1), PyList(<<0>>)>>,
     <<PyInt(2), PyInt(1), PyList(<<1>>)>>,
     <<PyTuple(<<PyInt(1), PyInt(0)>>), PyInt(1), PyList(<<1>>)>>,
     <<PyInt(0), PyInt(1), PyList(<<0>>)>>,
     <<PyInt(2), PyInt(2), PyList(<<0, 1>>)>>}

-----------------------------------------------------------------------------
(* Operations *)

Init ==
    /\ pc = "new"
    /\ num_electrons = PyNone
    /\ num_molecular_orbitals = PyNone
    /\ active_orbitals = PyNone
    /\ mo_occ_total = Nothing
    /\ active_orbs_indices = Nothing
    /\ transform_active = Nothing
    /\ density_inactive = Nothing
    /\ inactive_orbs_idxs = Nothing
    /\ grouped_property = NoneNode
    /\ exc = "none"
    /\ result = NoneNode

\* ActiveSpaceTransformer(num_electrons, num_molecular_orbitals, active_orbitals)
Init__(ne, nmo, ao) ==
    /\ pc = "new"
    /\ num_electrons' = ne
    /\ num_molecular_orbitals' = nmo
    /\ active_orbitals' = ao
    /\ exc' = CheckConfiguration(ne, nmo)
    /\ pc' = IF CheckConfiguration(ne, nmo) = "none" THEN "constructed" ELSE "rejected"
    /\ UNCHANGED <<mo_occ_total, active_orbs_indices, transform_active, density_inactive,
                   inactive_orbs_idxs, grouped_property, result>>

\* transformer.transform(gp)
Transform(gp) ==
    /\ pc = "constructed"
    /\ LET r == TransformCall(gp, num_electrons, num_molecular_orbitals, active_orbitals)
       IN  /\ grouped_property' = gp
           /\ exc' = r.exc
           /\ pc' = IF r.exc = "none" THEN "returned" ELSE "raised"
           /\ mo_occ_total' = IF r.occ.some THEN r.occ ELSE mo_occ_total
           /\ active_orbs_indices' = IF r.sel.some THEN Some(r.sel.v.active)
                                     ELSE active_orbs_indices
           /\ transform_active' = IF r.sel.some
                                  THEN Some(ElectronicBasisTransform(r.sel.v.active))
                                  ELSE transform_active
           /\ density_inactive' = IF r.density.some
                                  THEN Some(OneBodyElectronicIntegrals(r.density.v[1],
                                                                       r.density.v[2]))
                                  ELSE density_inactive
           /\ inactive_orbs_idxs' = IF r.sel.some THEN Some(r.sel.v.inactive) ELSE Nothing
           /\ result' = r.out
    /\ UNCHANGED <<num_electrons, num_molecular_orbitals, active_orbitals>>

Construct ==
    /\ pc = "new"
    /\ \E ne \in NumElectronsChoices, nmo \in NumOrbitalsChoices, ao \in ActiveOrbitalsChoices :
           Init__(ne, nmo, ao)

Reduce ==
    /\ pc = "constructed"
    /\ \E pn \in Systems : Transform(DriverResult(pn, <<>>))

Next == Construct \/ Reduce

Spec == Init /\ [][Next]_vars

\* the same operations over the enumerated trees
ConstructForTree ==
    /\ pc = "new"
    /\ \E c \in TreeConfigs : Init__(c[1], c[2], c[3])

ReduceTree ==
    /\ pc = "constructed"
    /\ \E pn \in TreeSystems :
           \E gp \in {DriverResult(pn, x) : x \in ExtraChoices} \cup Malformed(pn) :
               Transform(gp)

NextTree == ConstructForTree \/ ReduceTree

SpecTree == Init /\ [][NextTree]_vars

\* transformer.transform(gp) on an instance that may have been called before
TransformOnInstance(gp) ==
    /\ pc \in {"constructed", "returned", "raised"}
    /\ LET r == TransformOn(Self, gp)
       IN  /\ grouped_property' = gp
           /\ exc' = r.exc
           /\ pc' = IF r.exc = "none" THEN "returned" ELSE "raised"
           /\ mo_occ_total' = r.self.mo_occ_total
           /\ active_orbs_indices' = r.self.active_orbs_indices
           /\ transform_active' = r.self.transform_active
           /\ density_inactive' = r.self.density_inactive
           /\ inactive_orbs_idxs' = r.inactive
           /\ result' = r.out
    /\ UNCHANGED <<num_electrons, num_molecular_orbitals, active_orbitals>>

\* one transformer called any number of times
ConstructForHistory ==
    /\ pc = "new"
    /\ \E c \in HistoryConfigs : Init__(c[1], c[2], c[3])

ReduceAgain ==
    /\ pc \in {"constructed", "returned", "raised"}
    /\ \E gp \in HistoryTrees : TransformOnInstance(gp)

NextHistory == ConstructForHistory \/ ReduceAgain

SpecHistory == Init /\ [][NextHistory]_vars

-----------------------------------------------------------------------------
(* What the claims speak about *)

Called == pc \in {"returned", "raised"}
Returned == pc = "returned"
DefaultMode == active_orbitals.tag = "none"
ExplicitMode == active_orbitals.tag = "list"

\* the occupation node of the tree given to transform, and of the tree it returned
InputOccupation == GetProperty(grouped_property, "ParticleNumber")
ReducedOccupation == GetProperty(result, "ParticleNumber")

SpatialOrbitals == Len(InputOccupation.occ_a)
TotalOccupation == [o \in 1..SpatialOrbitals |->
                       InputOccupation.occ_a[o] + InputOccupation.occ_b[o]]
TotalElectrons == InputOccupation.num_alpha + InputOccupation.num_beta

\* num_electrons is an even non-negative int or a pair of non-negative ints
IsEvenCount(ne) == ne.tag = "int" /\ ne.val >= 0 /\ ne.val % 2 = 0
IsPair(ne) ==
    /\ ne.tag = "tuple"
    /\ Len(ne.elems) = 2
    /\ \A i \in 1..2 : ne.elems[i].tag = "int" /\ ne.elems[i].val >= 0
WellShaped(ne) == IsEvenCount(ne) \/ IsPair(ne)

\* the requested number of active electrons
Requested == IF num_electrons.tag = "int" THEN num_electrons.val
             ELSE num_electrons.elems[1].val + num_electrons.elems[2].val
RequestedPerSpin == IF num_electrons.tag = "int"
                    THEN <<num_electrons.val \div 2, num_electrons.val \div 2>>
                    ELSE <<num_electrons.elems[1].val, num_electrons.elems[2].val>>
InactiveElectrons == TotalElectrons - RequestedPerSpin[1] - RequestedPerSpin[2]

\* the list [a, a + 1, ..., b - 1]
Block(a, b) == [i \in 1..(b - a) |-> a + i - 1]

-----------------------------------------------------------------------------
(* C1: default-mode selection.  Whenever transform returns for a transformer     *)
(* built without active_orbitals, the inactive indices are 0 .. n - 1 and the    *)
(* active indices n .. n + num_molecular_orbitals - 1, n being half the number   *)
(* of inactive electrons; the 10-orbital, 10-electron system with                *)
(* num_electrons = 4 and num_molecular_orbitals = 2 gives [0,1,2] and [3,4].     *)
C1_DefaultSelection ==
    /\ (Returned /\ DefaultMode) =>
          /\ inactive_orbs_idxs.v = Block(0, InactiveElectrons \div 2)
          /\ active_orbs_indices.v =
                Block(InactiveElectrons \div 2,
                      (InactiveElectrons \div 2) + num_molecular_orbitals.val)
    /\ (Called /\ DefaultMode /\ InputOccupation = ScenarioSystem
            /\ num_electrons = PyInt(4) /\ num_molecular_orbitals = PyInt(2)) =>
          /\ Returned
          /\ inactive_orbs_idxs.v = <<0, 1, 2>>
          /\ active_orbs_indices.v = <<3, 4>>

C1_Witness ==
    /\ Returned /\ DefaultMode /\ InputOccupation = ScenarioSystem
    /\ num_electrons = PyInt(4) /\ num_molecular_orbitals = PyInt(2)
    /\ active_orbs_indices.v = <<3, 4>>

(* C2: electron conservation.  Whenever transform returns, the occupation node   *)
(* of the returned tree counts exactly the requested number of active electrons. *)
C2_ElectronConservation ==
    Returned => ReducedOccupation.num_alpha + ReducedOccupation.num_beta = Requested

(* C3: whenever transform returns, there are num_molecular_orbitals active       *)
(* indices and no index is both active and inactive.                             *)
C3_SizeAndDisjoint ==
    Returned =>
        /\ Len(active_orbs_indices.v) = num_molecular_orbitals.val
        /\ Range(active_orbs_indices.v) \cap Range(inactive_orbs_idxs.v) = {}

C3_Witness ==
    /\ Returned /\ ExplicitMode
    /\ Len(active_orbs_indices.v) = 2
    /\ inactive_orbs_idxs.v # <<>>

(* C4: construction-time validation.  The constructor raises exactly when      *)
(* num_electrons is neither an even non-negative int nor a pair of non-negative  *)
(* ints, or num_molecular_orbitals is not a non-negative int; so every           *)
(* transformer that exists has arguments of those shapes.                        *)
C4_ConstructionValidation ==
    LET shaped == /\ WellShaped(num_electrons)
                  /\ num_molecular_orbitals.tag = "int"
                  /\ num_molecular_orbitals.val >= 0
    IN  /\ pc = "rejected" => (~ shaped /\ exc = "QiskitNatureError")
        /\ pc \in {"constructed", "returned", "raised"} => shaped

\* the infeasible requests of C5
OddOrNegativeInactive ==
    WellShaped(num_electrons) /\ (InactiveElectrons < 0 \/ InactiveElectrons % 2 # 0)
TooManyOrbitals ==
    /\ WellShaped(num_electrons) /\ DefaultMode
    /\ (InactiveElectrons \div 2) + num_molecular_orbitals.val > SpatialOrbitals
LengthMismatch ==
    ExplicitMode /\ Len(active_orbitals.elems) # num_molecular_orbitals.val
OccupationMismatch ==
    /\ WellShaped(num_electrons) /\ ExplicitMode
    /\ \A i \in 1..Len(active_orbitals.elems) :
           active_orbitals.elems[i] \in 0..(SpatialOrbitals - 1)
    /\ SumSeq([i \in 1..Len(active_orbitals.elems) |->
                  TotalOccupation[active_orbitals.elems[i] + 1]] \o <<>>) # Requested

(* C5: infeasible requests are rejected.  When the inactive electron count is    *)
(* negative or odd, the default block does not fit, the explicit list has the    *)
(* wrong length or holds the wrong number of electrons, transform raises the     *)
(* feasibility error and produces neither index lists nor a tree.                *)
C5_InfeasibleRejected ==
    (Called /\ (OddOrNegativeInactive \/ TooManyOrbitals \/ LengthMismatch
                    \/ OccupationMismatch)) =>
        /\ exc = "QiskitNatureError"
        /\ ~ active_orbs_indices.some
        /\ ~ inactive_orbs_idxs.some
        /\ result = NoneNode

(* C6 as stated: with active_orbitals given, transform fails with the            *)
(* feasibility error if an index is at least half the number of spatial         *)
(* orbitals.                                                                     *)
C6_HalfSpatialBound ==
    (Called /\ ExplicitMode /\ WellShaped(num_electrons)
        /\ \E i \in 1..Len(active_orbitals.elems) :
               2 * active_orbitals.elems[i] >= SpatialOrbitals) =>
        exc = "QiskitNatureError"

(* C6 as amended: with active_orbitals given, transform raises and returns no    *)
(* tree if an index is at least the number of spatial orbitals (the spin-orbital *)
(* count // 2); the error is the feasibility error whenever num_electrons is an  *)
(* even int or a pair.                                                           *)
C6_IndexBound ==
    (Called /\ ExplicitMode
        /\ \E i \in 1..Len(active_orbitals.elems) :
               active_orbitals.elems[i] >= SpatialOrbitals) =>
        /\ pc = "raised"
        /\ result = NoneNode
        /\ WellShaped(num_electrons) => exc = "QiskitNatureError"

C6_Witness ==
    /\ Called /\ ExplicitMode /\ WellShaped(num_electrons)
    /\ ~ OddOrNegativeInactive /\ ~ LengthMismatch
    /\ \E i \in 1..Len(active_orbitals.elems) : active_orbitals.elems[i] = SpatialOrbitals
    /\ exc = "QiskitNatureError"

(* C7: two outcomes only.  A call of transform on a tree holding an occupation   *)
(* node and a basis transform either returns a tree or raises QiskitNatureError. *)
C7_TwoOutcomes ==
    Called => exc \in {"none", "QiskitNatureError"}

\* transform called with the default-mode block given as active_orbitals
ExplicitCallOnBlock ==
    TransformCall(grouped_property, num_electrons, num_molecular_orbitals,
                  PyList(active_orbs_indices.v))

(* C8: explicit mode agrees with default mode.  Whenever default mode accepts a  *)
(* request (already for a non-empty block), transform with active_orbitals equal *)
(* to the block default mode selected also succeeds and selects the same active  *)
(* and inactive indices; in the 10-orbital scenario active_orbitals = [3,4]      *)
(* succeeds with inactive [0,1,2] and active [3,4].                              *)
C8_ExplicitAgrees ==
    /\ (Returned /\ DefaultMode /\ num_molecular_orbitals.val >= 1) =>
          /\ ExplicitCallOnBlock.exc = "none"
          /\ ExplicitCallOnBlock.sel.v.active = active_orbs_indices.v
          /\ ExplicitCallOnBlock.sel.v.inactive = inactive_orbs_idxs.v
    /\ (Called /\ active_orbitals = PyList(<<3, 4>>) /\ InputOccupation = ScenarioSystem
            /\ num_electrons = PyInt(4) /\ num_molecular_orbitals = PyInt(2)) =>
          /\ Returned
          /\ inactive_orbs_idxs.v = <<0, 1, 2>>
          /\ active_orbs_indices.v = <<3, 4>>

\* the request keeps every orbital and every electron
FullSpaceRequest ==
    /\ ExplicitMode
    /\ Len(active_orbitals.elems) = SpatialOrbitals
    /\ Range(active_orbitals.elems) = 0..(SpatialOrbitals - 1)
    /\ num_molecular_orbitals = PyInt(SpatialOrbitals)
    /\ \/ num_electrons = PyInt(TotalElectrons)
       \/ num_electrons = PyTuple(<<PyInt(InputOccupation.num_alpha),
                                    PyInt(InputOccupation.num_beta)>>)

(* C9: round trip to the full space.  With every orbital listed and every        *)
(* electron requested, transform returns, no orbital is inactive, the reduced    *)
(* occupation node has the input's register length and electron counts, and the *)
(* energy shift recorded on every integral node is zero.                         *)
C9_FullSpace ==
    (Called /\ FullSpaceRequest) =>
        /\ Returned
        /\ inactive_orbs_idxs.v = <<>>
        /\ ReducedOccupation.nso = InputOccupation.nso
        /\ ReducedOccupation.nso = 2 * SpatialOrbitals
        /\ ReducedOccupation.num_alpha = InputOccupation.num_alpha
        /\ ReducedOccupation.num_beta = InputOccupation.num_beta
        /\ \A i \in 1..Len(result.children) :
               result.children[i].kind = "IntegralProperty" =>
                   result.children[i].shift2 = 0

C9_Witness ==
    /\ Returned /\ FullSpaceRequest
    /\ InputOccupation.num_alpha = 2 /\ InputOccupation.num_beta = 1
    /\ \E i \in 1..Len(result.children) : result.children[i].kind = "IntegralProperty"

\* the property kinds the rewrite knows
Rewritable(kind) ==
    kind \in {"IntegralProperty", "ParticleNumber", "SecondQuantizedProperty",
              "ElectronicBasisTransform", "DriverMetadata"}
IsGroup(p) == p.kind \in {"ElectronicStructureDriverResult", "GroupedProperty"}

\* a node that has a place in the output: a rewritable leaf, or a group one of
\* whose descendants has
RECURSIVE Survives(_)
Survives(p) ==
    IF IsGroup(p) THEN \E i \in 1..Len(p.children) : Survives(p.children[i])
    ELSE Rewritable(p.kind)

\* out holds exactly the surviving children of in, by name and in order
RECURSIVE Contained(_, _)
Contained(in, out) ==
    LET kept == SelectSeq(in.children, Survives)
    IN  /\ out.kind = in.kind
        /\ out.name = in.name
        /\ Len(out.children) = Len(kept)
        /\ \A i \in 1..Len(kept) :
               /\ out.children[i].name = kept[i].name
               /\ out.children[i].kind = kept[i].kind
               /\ IsGroup(kept[i]) => Contained(kept[i], out.children[i])

\* the tree holds what transform requires of it
Transformable ==
    /\ grouped_property.kind = "ElectronicStructureDriverResult"
    /\ InputOccupation.kind = "ParticleNumber"
    /\ GetProperty(grouped_property, "ElectronicBasisTransform").kind
           = "ElectronicBasisTransform"

(* C10: unsupported nodes are contained.  No TypeError escapes transform; the    *)
(* call returns exactly when it returns for the same tree without the extra      *)
(* children; and the returned tree holds, group by group, the rewritable         *)
(* children under their names and in their order, without the unsupported ones  *)
(* and without the groups left empty.                                            *)
C10_UnsupportedContained ==
    Called =>
        /\ exc # "TypeError"
        /\ Transformable =>
               (Returned <=>
                    TransformCall(DriverResult(InputOccupation, <<>>), num_electrons,
                                  num_molecular_orbitals, active_orbitals).exc = "none")
        /\ Returned => Contained(grouped_property, result)

C10_Witness ==
    /\ Returned
    /\ Len(grouped_property.children) = 5
    /\ grouped_property.children[4].name = "Outer"
    /\ ~ Survives(grouped_property.children[4])
    /\ Len(grouped_property.children[4].children[1].children) = 2
    /\ IsGroup(grouped_property.children[5])
    /\ Len(grouped_property.children[5].children) = 2
    /\ ~ Survives(grouped_property.children[5].children[1])
    /\ Survives(grouped_property.children[5].children[2])
    /\ Len(result.children) = 4

\* a list without a repeated element whose elements are spatial-orbital indices
NoRepeats(l) == \A i, j \in 1..Len(l) : i # j => l[i] # l[j]
OrbitalIndices(l) == \A i \in 1..Len(l) : l[i] >= 0 /\ l[i] < SpatialOrbitals

(* C11: the selector result is well-formed.  Whenever transform returns, in      *)
(* either mode, the active and the inactive list each hold no element twice and  *)
(* every element i of either list satisfies 0 <= i < number of spatial orbitals. *)
C11_WellFormedLists ==
    Returned =>
        /\ NoRepeats(active_orbs_indices.v) /\ OrbitalIndices(active_orbs_indices.v)
        /\ NoRepeats(inactive_orbs_idxs.v) /\ OrbitalIndices(inactive_orbs_idxs.v)

\* the spatial orbitals holding at least one electron
OccupiedOrbitals == {o \in 0..(SpatialOrbitals - 1) : TotalOccupation[o + 1] > 0}

(* C12: occupied orbitals are never lost.  Whenever transform returns, the       *)
(* active and inactive indices together are exactly the active indices and the   *)
(* orbitals of positive total occupation: an occupied orbital that is not active *)
(* is inactive, and an inactive orbital is occupied.                             *)
C12_OccupiedCovered ==
    Returned =>
        Range(active_orbs_indices.v) \cup Range(inactive_orbs_idxs.v)
            = Range(active_orbs_indices.v) \cup OccupiedOrbitals

\* the basis transform the returned tree holds at its top level
ReturnedBasisTransform == GetProperty(result, "ElectronicBasisTransform")

(* C13: the restricted transform is in the result.  Whenever transform returns,  *)
(* the basis transform at the top level of the returned tree is the restricted   *)
(* one built from the active-index columns (self._transform_active).             *)
C13_RestrictedInstalled ==
    Returned =>
        /\ transform_active.some
        /\ ReturnedBasisTransform = transform_active.v

\* what a freshly constructed transformer of the same configuration does with the
\* tree of the call that is being made
FreshCall ==
    TransformOn(NewInstance(num_electrons, num_molecular_orbitals, active_orbitals),
                grouped_property')

\* a call on an instance that has been called before gives the outcome of the
\* same call on a fresh transformer, and every cached field the call writes
\* gets the value the fresh transformer's call gives it
SameAsFresh ==
    /\ exc' = FreshCall.exc
    /\ result' = FreshCall.out
    /\ inactive_orbs_idxs' = FreshCall.inactive
    /\ FreshCall.self.mo_occ_total.some => mo_occ_total' = FreshCall.self.mo_occ_total
    /\ FreshCall.exc = "none" =>
           /\ active_orbs_indices' = FreshCall.self.active_orbs_indices
           /\ transform_active' = FreshCall.self.transform_active
           /\ density_inactive' = FreshCall.self.density_inactive

(* C14: history independence.  Every call of transform on an instance that was   *)
(* called before, whether the earlier call returned or raised, returns the tree  *)
(* or raises the error that a freshly constructed transformer of the same        *)
(* configuration gives on that tree, and a returning call leaves the cached      *)
(* fields (total occupation, active indices, restricted transform, inactive      *)
(* density) that the fresh transformer's call leaves: no value cached by an      *)
(* earlier call reaches a later one.                                             *)
C14_HistoryIndependence ==
    [][(pc \in {"returned", "raised"} /\ pc' \in {"returned", "raised"}) => SameAsFresh]_vars

\* a call raised on an instance still holding the selection and the inactive
\* density an earlier call cached for a tree of other occupation, the total
\* occupation being already the one of the new tree
C14_Witness ==
    /\ pc = "raised"
    /\ exc = "QiskitNatureError"
    /\ InputOccupation.kind = "ParticleNumber"
    /\ mo_occ_total = Some(VecAdd(InputOccupation.occ_a, InputOccupation.occ_b))
    /\ active_orbs_indices.some
    /\ transform_active.some
    /\ density_inactive.some
    /\ \E p \in 1..SpatialOrbitals :
           density_inactive.v.occ_a[p] > InputOccupation.occ_a[p]

====
